---- MODULE Spec2Model ----
(***************************************************************************)
(* Model of src/src/setup-drivers.js: the TxQueue class (nonce cache,      *)
(* nextNonce, markNonceFailed, submit and its lifecycle callback).         *)
(*                                                                         *)
(* JavaScript runs the code between two suspension points (await, a        *)
(* callback invocation) without interleaving, so every action below is one *)
(* such uninterrupted run.  submit has these runs:                         *)
(*   SubmitCall   lines 105-106 and 92-93: read the cache, send the RPC    *)
(*   RpcReply     line 93: the node answers accountNextIndex               *)
(*   Allocate     lines 94, 106-110: max, cache write, signAndSend call    *)
(*   On...        lines 110-138: one status callback each                  *)
(*   DispatchFail line 110: the awaited signAndSend rejects                *)
(* The remote node is the environment: it answers the index query and      *)
(* emits the status stream of a dispatched operation in the order of the   *)
(* node's transaction lifecycle (ready/broadcast, in-block, retracted,     *)
(* finalized, invalid, dropped).                                           *)
(***************************************************************************)
EXTENDS Integers, Sequences, FiniteSets, TLC

\* ---- bounds ----
MaxCalls == 2
MaxBlock == 2
\* submit calls in the specification of overlapping nextNonce queries
MaxRaceCalls == 3

Address == {"A", "B"}
Blocks == 1..MaxBlock

\* JavaScript undefined, for a missing nonceTracker entry, an unassigned
\* local and the unassigned `hash`
Undefined == -1

VARIABLES
    nonceTracker,         \* this.nonceTracker: address -> next nonce or Undefined
    rpcIndex,             \* the node's accountNextIndex per address
    pc,                   \* position of each submit call
    address,              \* signer.address of the call
    waitForFinalization,  \* third argument of the call
    byCache,              \* local of nextNonce (line 92)
    byRpc,                \* local of nextNonce (line 93)
    nonce,                \* local of submit (line 106)
    hash,                 \* local of submit (line 108)
    status,               \* last status the callback of the call was given
    subscribed,           \* the status subscription is live (unsub not called)
    outcome,              \* state of the promise returned by submit
    value,                \* hash the promise was resolved with
    block,                \* block the node last reported the operation in
    error,                \* what the promise was rejected with
    poll                  \* the one checkUntil / checkUntilEq call: its arguments,
                          \* locals, position, and the clock

\* The submit calls of a run, numbered in the order they are issued
Calls == DOMAIN pc

vars == <<nonceTracker, rpcIndex, pc, address, waitForFinalization, byCache,
          byRpc, nonce, hash, status, block, subscribed, outcome, value,
          error, poll>>

callVars == <<address, waitForFinalization>>
sendVars == <<pc, nonce, byCache, byRpc>>

\* ---- pure helpers ----

Max(a, b) == IF a >= b THEN a ELSE b

\* line 92: this.nonceTracker[address] || 0
CacheOr0(v) == IF v = Undefined \/ v = 0 THEN 0 ELSE v

\* mutant: the node's answer always wins over the cache
nextNonce_rpcOnly(c, r) == r

\* line 94: Math.max(byCache, byRpc)
nextNonce(c, r) == Max(c, r)

\* mutant: an Invalid status leaves the cache as it is
markNonceFailed_keep(tracker, a, n) == tracker

\* mutant: the cache is set to the failed nonce without comparing
markNonceFailed_noCompare(tracker, a, n) == [tracker EXCEPT ![a] = n]

\* lines 96-103
markNonceFailed(tracker, a, n) ==
    IF tracker[a] = Undefined \/ tracker[a] = 0
        THEN tracker
        ELSE IF n < tracker[a] THEN [tracker EXCEPT ![a] = n] ELSE tracker

\* mutant: one next-nonce counter shared by all addresses
reserveNonce_shared(tracker, a, n) == [b \in DOMAIN tracker |-> n + 1]

\* line 107: this.nonceTracker[address] = nonce + 1
reserveNonce(tracker, a, n) == [tracker EXCEPT ![a] = n + 1]

\* a promise settles once: resolve / reject of a settled promise is a no-op
Settle(cur, new) == IF cur = "pending" THEN new ELSE cur

\* ---- checkUntil / checkUntilEq: arguments and pure steps ----

\* sleep(100), lines 159 and 179
PollInterval == 100

\* times are multiples of half a poll interval
MaxTimeoutSteps == 3
MaxValue == 2
Half == PollInterval \div 2
Timeouts == {k * Half : k \in 0..MaxTimeoutSteps}
Delays == {k * Half : k \in 0..(MaxTimeoutSteps + 3)}
Values == 0..MaxValue
\* how long one invocation of async_fn takes, and how long sleep(100) takes
\* (a timer fires at its delay or later)
PredTimes == {0, Half}
SleepTimes == {PollInterval, PollInterval + Half}

\* a predicate that is false until the clock reaches d and true from then on
\* (0 stands for a falsy, 1 for a truthy result)
PredValue(d, t) == IF t >= d THEN 1 ELSE 0

\* line 152: if (await async_fn()); line 168: if (actual == expected)
Holds(kind, actual, expected) ==
    IF kind = "checkUntil" THEN actual # 0 ELSE actual = expected

\* mutant: the timeout is tested before the result of async_fn
pollStep_timeoutFirst(holds, elapsed, timeout) ==
    IF elapsed >= timeout THEN "timeout"
    ELSE IF holds THEN "returned" ELSE "sleep"

\* mutant: the loop ends quietly when the time is up
pollStep_swallow(holds, elapsed, timeout) ==
    IF holds \/ elapsed >= timeout THEN "returned" ELSE "sleep"

\* mutant: the time is up only when more than timeout has elapsed
pollStep_strict(holds, elapsed, timeout) ==
    IF holds THEN "returned"
    ELSE IF elapsed > timeout THEN "timeout" ELSE "sleep"

\* lines 152-159 and 168-179, after async_fn has returned: return, throw
\* or sleep
pollStep(holds, elapsed, timeout) ==
    IF holds THEN "returned"
    ELSE IF elapsed >= timeout THEN "timeout" ELSE "sleep"

\* mutant: every poll that does not match is logged
logsNow_everyPoll(kind, holds, actual, lastActual, verbose) ==
    kind = "checkUntilEq" /\ ~holds /\ verbose

\* line 171: actual != lastActual && verbose (reached only in checkUntilEq
\* and only when line 168 did not return)
logsNow(kind, holds, actual, lastActual, verbose) ==
    kind = "checkUntilEq" /\ ~holds /\ actual # lastActual /\ verbose

\* no poller call has been made
PollIdle ==
    [pc |-> "idle", kind |-> "checkUntil", timeout |-> 0, delay |-> Undefined,
     expected |-> 0, verbose |-> FALSE, t0 |-> 0, now |-> 0,
     actual |-> Undefined, lastActual |-> Undefined, logs |-> 0, evals |-> 0,
     sleeps |-> 0, ideal |-> TRUE]

\* ---- initial state ----

\* The state after `new TxQueue(api)` (lines 87-90) with n submit calls yet
\* to be made: an empty nonceTracker and no call started.
InitFor(n) ==
    /\ nonceTracker = [a \in Address |-> Undefined]
    /\ rpcIndex = [a \in Address |-> 0]
    /\ pc = [i \in 1..n |-> "idle"]
    /\ address = [i \in 1..n |-> "A"]
    /\ waitForFinalization = [i \in 1..n |-> FALSE]
    /\ byCache = [i \in 1..n |-> Undefined]
    /\ byRpc = [i \in 1..n |-> Undefined]
    /\ nonce = [i \in 1..n |-> Undefined]
    /\ hash = [i \in 1..n |-> Undefined]
    /\ status = [i \in 1..n |-> "none"]
    /\ block = [i \in 1..n |-> Undefined]
    /\ subscribed = [i \in 1..n |-> FALSE]
    /\ outcome = [i \in 1..n |-> "none"]
    /\ value = [i \in 1..n |-> Undefined]
    /\ error = [i \in 1..n |-> "none"]
    /\ poll = PollIdle

Init == InitFor(MaxCalls)

\* ---- submit, up to the dispatch ----

\* submit(txBuilder, signer, w) is called: lines 105-106 run into nextNonce,
\* which reads the cache (line 92) and suspends on the RPC (line 93).
\* Calls are numbered in the order they are issued, and the signer of the
\* first call is named "A" (the code treats all addresses alike).
SubmitCall(i, a, w) ==
    /\ pc[i] = "idle"
    /\ \A j \in Calls : j < i => pc[j] # "idle"
    /\ i = 1 => a = "A"
    /\ pc' = [pc EXCEPT ![i] = "nextNonce"]
    /\ address' = [address EXCEPT ![i] = a]
    /\ waitForFinalization' = [waitForFinalization EXCEPT ![i] = w]
    /\ byCache' = [byCache EXCEPT ![i] = CacheOr0(nonceTracker[a])]
    /\ UNCHANGED <<nonceTracker, rpcIndex, byRpc, nonce, hash, status, block,
                   subscribed, outcome, value, error,
                   poll>>

\* the node computes the answer of accountNextIndex (line 93); the answer
\* reaches the caller in Allocate
RpcReply(i) ==
    /\ pc[i] = "nextNonce"
    /\ pc' = [pc EXCEPT ![i] = "replied"]
    /\ byRpc' = [byRpc EXCEPT ![i] = rpcIndex[address[i]]]
    /\ UNCHANGED <<nonceTracker, rpcIndex, byCache, nonce, hash, status, block,
                   subscribed, outcome, value, error, callVars,
                   poll>>

\* nextNonce returns (line 94) and its locals die; submit resumes, reserves
\* the nonce (line 107), creates the promise (line 109) and calls signAndSend
\* (line 110)
Allocate(i) ==
    /\ pc[i] = "replied"
    /\ LET n == nextNonce(byCache[i], byRpc[i]) IN
        /\ nonce' = [nonce EXCEPT ![i] = n]
        /\ nonceTracker' = reserveNonce(nonceTracker, address[i], n)
    /\ pc' = [pc EXCEPT ![i] = "dispatched"]
    /\ outcome' = [outcome EXCEPT ![i] = "pending"]
    /\ subscribed' = [subscribed EXCEPT ![i] = TRUE]
    /\ byCache' = [byCache EXCEPT ![i] = Undefined]
    /\ byRpc' = [byRpc EXCEPT ![i] = Undefined]
    /\ UNCHANGED <<rpcIndex, hash, status, block, value, error, callVars,
                   poll>>

\* the awaited signAndSend rejects (line 110): the async executor throws,
\* nothing settles the promise, no callback will come
DispatchFail(i) ==
    /\ pc[i] = "dispatched"
    /\ status[i] = "none"
    /\ pc' = [pc EXCEPT ![i] = "senderror"]
    /\ subscribed' = [subscribed EXCEPT ![i] = FALSE]
    /\ UNCHANGED <<nonceTracker, rpcIndex, byCache, byRpc, nonce, hash, status,
                   block, outcome, value, error, callVars,
                   poll>>

\* the node has an operation of address a with nonce rpcIndex[a] in its
\* pool or chain, so its next index moves past it
RemoteAdvance(a) ==
    /\ \E i \in Calls : /\ pc[i] = "dispatched"
                        /\ address[i] = a
                        /\ nonce[i] = rpcIndex[a]
    /\ rpcIndex' = [rpcIndex EXCEPT ![a] = rpcIndex[a] + 1]
    /\ UNCHANGED <<nonceTracker, hash, status, block, subscribed, outcome,
                   value, error, callVars, sendVars,
                   poll>>

\* ---- the status callback of signAndSend, lines 110-138 ----

\* the callback of call i can be invoked: dispatched, not failed, and the
\* subscription has not been torn down
Listening(i) == pc[i] = "dispatched" /\ subscribed[i]

\* statuses after which the node may include, invalidate or drop the operation
InPool == {"none", "broadcast", "retracted"}

\* Block hashes are opaque to the code, so the blocks an operation is
\* reported in are named in the order they first appear: the first one is 1,
\* a later one is a block seen before or the next new one.
KnownBlocks(i) ==
    IF block[i] = Undefined THEN {1} ELSE {h \in Blocks : h <= block[i] + 1}

\* mutant: the failure event is not acted on
inBlockOutcome_ignoreFailure(cur, failed, w) ==
    IF ~w THEN Settle(cur, "resolved") ELSE cur

\* mutant: the promise is resolved at inclusion whatever waitForFinalization is
inBlockOutcome_ignoreWait(cur, failed, w) ==
    LET afterLoop == IF failed THEN Settle(cur, "rejected") ELSE cur
    IN  Settle(afterLoop, "resolved")

\* lines 112-125, the promise: the loop over result.events rejects on a
\* system.ExtrinsicFailed event and does not return, so line 121 still
\* runs resolve when waitForFinalization is false
inBlockOutcome(cur, failed, w) ==
    LET afterLoop == IF failed THEN Settle(cur, "rejected") ELSE cur
    IN  IF ~w THEN Settle(afterLoop, "resolved") ELSE afterLoop

\* mutant: a failure event in the block also rolls the nonce cache back
inBlockTracker_rollback(tracker, a, n, failed) ==
    IF failed THEN markNonceFailed(tracker, a, n) ELSE tracker

\* lines 111-127 hold no write to this.nonceTracker
inBlockTracker(tracker, a, n, failed) == tracker

\* lines 115, 120: unsub() on a failure event and when not waiting for finality
inBlockSubscribed(sub, failed, w) == IF failed \/ ~w THEN FALSE ELSE sub

\* lines 111-127: status.isInBlock; failed says whether result.events holds
\* a system.ExtrinsicFailed event, h is status.asInBlock
OnInBlock(i, failed, h) ==
    /\ Listening(i)
    /\ status[i] \in InPool
    /\ h \in KnownBlocks(i)
    /\ status' = [status EXCEPT ![i] = IF failed THEN "inBlockFailed" ELSE "inBlock"]
    /\ block' = [block EXCEPT ![i] = h]
    /\ LET final == inBlockOutcome(outcome[i], failed, waitForFinalization[i])
       IN /\ outcome' = [outcome EXCEPT ![i] = final]
          /\ error' = [error EXCEPT ![i] =
                 IF outcome[i] = "pending" /\ final = "rejected"
                     THEN "ExtrinsicFailed" ELSE @]
          /\ value' = [value EXCEPT ![i] =
                 IF outcome[i] = "pending" /\ final = "resolved" THEN h ELSE @]
    /\ subscribed' = [subscribed EXCEPT ![i] =
           inBlockSubscribed(@, failed, waitForFinalization[i])]
    /\ hash' = [hash EXCEPT ![i] = IF waitForFinalization[i] THEN h ELSE @]
    /\ nonceTracker' = inBlockTracker(nonceTracker, address[i], nonce[i], failed)
    /\ UNCHANGED <<rpcIndex, callVars, sendVars,
                   poll>>

\* lines 128-132: status.isFinalized
OnFinalized(i) ==
    /\ Listening(i)
    /\ status[i] = "inBlock"
    /\ status' = [status EXCEPT ![i] = "finalized"]
    /\ outcome' = [outcome EXCEPT ![i] = Settle(@, "resolved")]
    /\ value' = [value EXCEPT ![i] = IF outcome[i] = "pending" THEN hash[i] ELSE @]
    /\ UNCHANGED <<nonceTracker, rpcIndex, hash, block, subscribed, error,
                   callVars, sendVars,
                   poll>>

\* lines 133-137: status.isInvalid
OnInvalid(i) ==
    /\ Listening(i)
    /\ status[i] \in InPool
    /\ status' = [status EXCEPT ![i] = "invalid"]
    /\ subscribed' = [subscribed EXCEPT ![i] = FALSE]
    /\ nonceTracker' = markNonceFailed(nonceTracker, address[i], nonce[i])
    /\ outcome' = [outcome EXCEPT ![i] = Settle(@, "rejected")]
    /\ error' = [error EXCEPT ![i] =
           IF outcome[i] = "pending" THEN "Invalid transaction" ELSE @]
    /\ UNCHANGED <<rpcIndex, hash, block, value, callVars, sendVars,
                   poll>>

\* any other status (ready/broadcast, retracted, dropped/usurped): no branch
\* of lines 111-137 matches, the callback returns without doing anything
OnOther(i, s) ==
    /\ Listening(i)
    /\ \/ s = "broadcast" /\ status[i] = "none"
       \/ s = "retracted" /\ status[i] = "inBlock"
       \/ s = "dropped" /\ status[i] \in InPool
    /\ status' = [status EXCEPT ![i] = s]
    /\ UNCHANGED <<nonceTracker, rpcIndex, hash, block, subscribed, outcome,
                   value, error, callVars, sendVars,
                   poll>>

Next ==
    \/ \E i \in Calls, a \in Address, w \in BOOLEAN : SubmitCall(i, a, w)
    \/ \E i \in Calls : RpcReply(i)
    \/ \E i \in Calls : Allocate(i)
    \/ \E i \in Calls : DispatchFail(i)
    \/ \E a \in Address : RemoteAdvance(a)
    \/ \E i \in Calls, failed \in BOOLEAN, h \in Blocks : OnInBlock(i, failed, h)
    \/ \E i \in Calls : OnFinalized(i)
    \/ \E i \in Calls : OnInvalid(i)
    \/ \E i \in Calls, s \in {"broadcast", "retracted", "dropped"} : OnOther(i, s)

Spec == Init /\ [][Next]_vars

\* The same queue with one more submit call, enough for three nextNonce
\* queries of one address to overlap.
RaceInit == InitFor(MaxRaceCalls)

RaceSpec == RaceInit /\ [][Next]_vars

\* the node gives the callback of call i its next status
Deliver(i) ==
    \/ \E failed \in BOOLEAN, h \in Blocks : OnInBlock(i, failed, h)
    \/ OnFinalized(i)
    \/ OnInvalid(i)
    \/ \E s \in {"broadcast", "retracted", "dropped"} : OnOther(i, s)

\* The event loop runs every continuation that is ready (the RPC answer,
\* the return of nextNonce), and the node keeps reporting on a dispatched
\* operation until its status stream ends; an included operation is not
\* retracted for ever.
FairSpec ==
    /\ Spec
    /\ \A i \in 1..MaxCalls :
          /\ WF_vars(RpcReply(i))
          /\ WF_vars(Allocate(i))
          /\ WF_vars(Deliver(i))
          /\ SF_vars(OnFinalized(i))

TypeOK ==
    /\ nonceTracker \in [Address -> {Undefined} \cup Nat]
    /\ pc \in [Calls -> {"idle", "nextNonce", "replied", "dispatched", "senderror"}]
    /\ outcome \in [Calls -> {"none", "pending", "resolved", "rejected"}]

\* ---- properties ----

Allocated(i) == pc[i] \in {"dispatched", "senderror"}

\* in flight: nonce allocated, promise neither resolved nor rejected
InFlight(i) == outcome[i] = "pending"

NoInvalidOn(a) == \A k \in Calls : address[k] = a => status[k] # "invalid"

\* the step in which call i takes the given position
Reaches(i, p) == pc[i] # p /\ pc'[i] = p

\* the step in which the callback of call i is given status s
Receives(i, s) == status[i] # s /\ status'[i] = s

\* C1: submit calls of one address that overlap (the later one is issued
\* while the earlier one is still pending) and see no Invalid status get
\* consecutive nonces in call order: the next call of the address gets the
\* previous call's nonce plus one.
C1_ConsecutiveNonces ==
    \A i, j \in Calls :
        ( /\ i < j
          /\ address[i] = address[j]
          /\ InFlight(i) /\ InFlight(j)
          /\ NoInvalidOn(address[i])
          /\ ~ \E k \in Calls : i < k /\ k < j /\ pc[k] # "idle"
                                /\ address[k] = address[i] )
        => nonce[j] = nonce[i] + 1

\* C2: no two in-flight operations of one signer address carry the same
\* nonce.
C2_InFlightNoncesDistinct ==
    \A i, j \in Calls :
        (i # j /\ InFlight(i) /\ InFlight(j) /\ address[i] = address[j])
        => nonce[i] # nonce[j]

\* C3: handling an Invalid status of the operation with nonce N on address
\* A rejects the promise with 'Invalid transaction', sets the cache of A to
\* N if it was greater than N and leaves it unchanged otherwise; no other
\* cache entry changes.
C3_InvalidRollsBack ==
    [][\A i \in Calls : Receives(i, "invalid") =>
          /\ outcome'[i] = "rejected"
          /\ error'[i] = "Invalid transaction"
          /\ nonceTracker'[address[i]] =
                IF nonceTracker[address[i]] > nonce[i]
                    THEN nonce[i] ELSE nonceTracker[address[i]]
          /\ \A b \in Address \ {address[i]} :
                nonceTracker'[b] = nonceTracker[b]]_vars

\* C3 witness: the remote index is behind the nonce the call was given, the
\* call was reported Invalid, rejected, and the cache is back at its nonce
C3_Witness ==
    \E i \in Calls :
        /\ status[i] = "invalid"
        /\ outcome[i] = "rejected" /\ error[i] = "Invalid transaction"
        /\ rpcIndex[address[i]] < nonce[i]
        /\ nonceTracker[address[i]] = nonce[i]

\* C4: handling an in-block status that carries system.ExtrinsicFailed
\* leaves the nonce cache of every address unchanged.
C4_FailureKeepsNonce ==
    [][\A i \in Calls : Receives(i, "inBlockFailed") =>
          nonceTracker' = nonceTracker]_vars

\* C4 witness: a call rejected by a failure event whose nonce stays consumed
C4_Witness ==
    \E i \in Calls :
        /\ status[i] = "inBlockFailed"
        /\ outcome[i] = "rejected" /\ error[i] = "ExtrinsicFailed"
        /\ nonceTracker[address[i]] = nonce[i] + 1

\* C5: nextNonce(address) returns the larger of the cached next nonce (0
\* when the address has no entry) and the node's accountNextIndex.
C5_NextNonceIsMax ==
    [][\A i \in Calls :
          /\ Reaches(i, "nextNonce") =>
                byCache'[i] = IF nonceTracker[address'[i]] = Undefined
                                  THEN 0 ELSE nonceTracker[address'[i]]
          /\ Reaches(i, "replied") => byRpc'[i] = rpcIndex[address[i]]
          /\ Reaches(i, "dispatched") =>
                /\ nonce'[i] >= byCache[i] /\ nonce'[i] >= byRpc[i]
                /\ nonce'[i] \in {byCache[i], byRpc[i]}]_vars

\* C5 witness: a dispatched call whose nonce is above the remote index, so
\* the lower remote answer did not override the cache
C5_Witness ==
    \E i \in Calls :
        /\ pc[i] = "dispatched"
        /\ nonce[i] > rpcIndex[address[i]]
        /\ nonceTracker[address[i]] = nonce[i] + 1

Settled(i) == outcome[i] \in {"resolved", "rejected"}

\* C6: a call whose in-block status carried system.ExtrinsicFailed is
\* rejected with the failure payload, whatever waitForFinalization is, and a
\* settled promise never changes its outcome, value or error.
C6_FailureRejects ==
    /\ [](\A i \in Calls : status[i] = "inBlockFailed" =>
              outcome[i] = "rejected" /\ error[i] = "ExtrinsicFailed")
    /\ [][\A i \in Calls : Settled(i) =>
              /\ outcome'[i] = outcome[i]
              /\ value'[i] = value[i]
              /\ error'[i] = error[i]]_vars

\* C6 witness: two calls rejected by a failure event, one waiting for
\* finality and one not
C6_Witness ==
    \E i, j \in Calls :
        /\ waitForFinalization[i] /\ ~waitForFinalization[j]
        /\ status[i] = "inBlockFailed" /\ status[j] = "inBlockFailed"
        /\ outcome[i] = "rejected" /\ outcome[j] = "rejected"
        /\ error[i] = "ExtrinsicFailed" /\ error[j] = "ExtrinsicFailed"

C8_SettledUnsubscribed ==
    \A i \in Calls : Settled(i) => ~subscribed[i]

\* C9: operations of one address are dispatched in nonce order: the call
\* being dispatched carries a nonce above that of every call of the address
\* dispatched before.
C9_DispatchInNonceOrder ==
    [][\A i \in Calls : Reaches(i, "dispatched") =>
          \A j \in Calls \ {i} :
              (Allocated(j) /\ address[j] = address[i]) => nonce[j] < nonce'[i]]_vars

\* C10: calls of different addresses do not block each other: while a call
\* of another address is pending, the index answer, the allocation with its
\* dispatch and the inclusion of a call are all possible; and a step of a
\* call changes no cache entry but that of its own address.
C10_AddressesIndependent ==
    /\ [](\A i, j \in Calls :
            (address[i] # address[j] /\ outcome[i] = "pending") =>
                /\ pc[j] = "nextNonce" => ENABLED RpcReply(j)
                /\ pc[j] = "replied" => ENABLED Allocate(j)
                /\ (Listening(j) /\ status[j] \in InPool) =>
                      ENABLED OnInBlock(j, FALSE, 1))
    /\ [][\A i \in Calls :
            (pc'[i] # pc[i] \/ status'[i] # status[i]) =>
                \A b \in Address \ {address'[i]} :
                    nonceTracker'[b] = nonceTracker[b]]_vars

\* C10 witness: the second call, of another address, is resolved while the
\* first call is dispatched and has had no status yet
C10_Witness ==
    /\ address[1] # address[2]
    /\ pc[1] = "dispatched" /\ status[1] = "none" /\ outcome[1] = "pending"
    /\ outcome[2] = "resolved"
    /\ nonceTracker[address[1]] = nonce[1] + 1
    /\ nonceTracker[address[2]] = nonce[2] + 1

\* C11: for one address, nextNonce never returns less than it returned to an
\* earlier call, as long as no call of that address was given the Invalid
\* status: when nextNonce returns to call j (the step that allocates), every
\* call of the same address that was issued before j and has its value
\* already got a value that is no greater.
C11_NextNonceNonDecreasing ==
    [][\A j \in Calls : Reaches(j, "dispatched") =>
          \A i \in Calls :
              ( /\ i < j
                /\ Allocated(i)
                /\ address[i] = address[j]
                /\ NoInvalidOn(address[j]) ) => nonce[i] <= nonce'[j]]_vars

\* the value nextNonce(a) returns when it is called, and answered by the
\* node, in the state reached by the step (lines 92-94)
NextNonceAfter(a) == nextNonce(CacheOr0(nonceTracker'[a]), rpcIndex'[a])

\* C12, as stated, for the first allocation of an address (the cache held
\* nothing for the address before it, which nextNonce reads as 0): once the
\* Invalid status of that call is handled, nextNonce of the address returns
\* at most the value the cache held before the attempt, 0.
C12_AtMostPriorCache ==
    [][\A i \in Calls :
          ( /\ Receives(i, "invalid")
            /\ \A k \in Calls \ {i} :
                   address[k] = address[i] => ~Allocated(k) ) =>
              NextNonceAfter(address[i]) <= 0]_vars

\* C12, amended: once the Invalid status for nonce N of address A is
\* handled, nextNonce(A) returns at most the greater of N and the node's
\* account index, hence at most N when the node's index is not past N.
C12_AtMostFailedNonceOrRemote ==
    [][\A i \in Calls : Receives(i, "invalid") =>
          NextNonceAfter(address[i]) <=
              Max(nonce[i], rpcIndex'[address[i]])]_vars

\* an Invalid status for a nonce above 0 was handled, the cache is back at
\* that nonce and nextNonce would return it again
C12_Witness ==
    \E i \in Calls :
        /\ status[i] = "invalid"
        /\ nonce[i] > 0
        /\ nonceTracker[address[i]] = nonce[i]
        /\ nextNonce(CacheOr0(nonceTracker[address[i]]),
                     rpcIndex[address[i]]) = nonce[i]

\* C17: the cached next nonce of an address is lowered only in the step that
\* handles an Invalid status of that address (an allocation never lowers
\* it), and a step that delivers a semantic failure, an inclusion or a
\* finalization leaves the whole cache as it was.
C17_LoweredOnlyByInvalid ==
    [][/\ \A a \in Address :
            (nonceTracker[a] # Undefined /\ nonceTracker'[a] < nonceTracker[a]) =>
                \E i \in Calls : address[i] = a /\ Receives(i, "invalid")
       /\ (\E i \in Calls : \/ Receives(i, "inBlockFailed")
                            \/ Receives(i, "inBlock")
                            \/ Receives(i, "finalized")) =>
              nonceTracker' = nonceTracker]_vars

\* ---- the condition poller, lines 149-181 ----

queueVars == <<nonceTracker, rpcIndex, pc, address, waitForFinalization,
               byCache, byRpc, nonce, hash, status, block, subscribed,
               outcome, value, error>>

\* checkUntil(async_fn, T) is called with a predicate that turns true at d
\* (d = Undefined: a predicate that may return anything at any time); line
\* 150 reads the clock and line 152 invokes async_fn
CheckUntilCall(T, d) ==
    /\ poll.pc = "idle"
    /\ poll' = [poll EXCEPT !.pc = "invoke", !.kind = "checkUntil",
                            !.timeout = T, !.delay = d, !.t0 = poll.now]
    /\ UNCHANGED queueVars

\* checkUntilEq(async_fn, e, T, v) is called; lines 164-167
CheckUntilEqCall(e, T, v) ==
    /\ poll.pc = "idle"
    /\ poll' = [poll EXCEPT !.pc = "invoke", !.kind = "checkUntilEq",
                            !.timeout = T, !.expected = e, !.verbose = v,
                            !.t0 = poll.now, !.lastActual = Undefined]
    /\ UNCHANGED queueVars

\* what async_fn may return when it returns at time t
Observable(t) ==
    IF poll.kind = "checkUntilEq" THEN Values
    ELSE IF poll.delay = Undefined THEN {0, 1}
    ELSE {PredValue(poll.delay, t)}

\* async_fn returns val after dur; the rest of the loop body runs up to the
\* return, the throw or the sleep (lines 152-159, 167-179)
PredReturns(dur, val) ==
    /\ poll.pc = "invoke"
    /\ val \in Observable(poll.now + dur)
    /\ LET t == poll.now + dur
           holds == Holds(poll.kind, val, poll.expected)
           logged == logsNow(poll.kind, holds, val, poll.lastActual, poll.verbose)
       IN poll' = [poll EXCEPT
              !.now = t,
              !.actual = val,
              !.evals = @ + 1,
              !.ideal = @ /\ dur = 0,
              !.logs = IF logged THEN @ + 1 ELSE @,
              !.lastActual = IF logged THEN val ELSE @,
              !.pc = pollStep(holds, t - poll.t0, poll.timeout)]
    /\ UNCHANGED queueVars

\* the timer of sleep(100) fires after dur (lines 143-147, 159, 179) and the
\* loop invokes async_fn again
SleepDone(dur) ==
    /\ poll.pc = "sleep"
    /\ poll' = [poll EXCEPT !.now = @ + dur, !.sleeps = @ + 1,
                            !.ideal = @ /\ dur = PollInterval,
                            !.pc = "invoke"]
    /\ UNCHANGED queueVars

PollNext ==
    \/ \E T \in Timeouts, d \in Delays \cup {Undefined} : CheckUntilCall(T, d)
    \/ \E e \in Values, T \in Timeouts, v \in BOOLEAN : CheckUntilEqCall(e, T, v)
    \/ \E dur \in PredTimes, val \in Values : PredReturns(dur, val)
    \/ \E dur \in SleepTimes : SleepDone(dur)

PollSpec == Init /\ [][PollNext]_vars

\* every invocation of async_fn returns and every timer fires
FairPollSpec ==
    /\ PollSpec
    /\ WF_vars(\E dur \in PredTimes, val \in Values : PredReturns(dur, val))
    /\ WF_vars(\E dur \in SleepTimes : SleepDone(dur))

PollTypeOK == poll.pc \in {"idle", "invoke", "sleep", "returned", "timeout"}

\* C16: an operation rejected before or without inclusion ends as a rejected
\* submit: the call whose status is Invalid is rejected, and the call whose
\* dispatch (signAndSend) failed is rejected and its nonce is released.
C16_DispatchFailureSurfaced ==
    \A i \in Calls :
        /\ status[i] = "invalid" => outcome[i] = "rejected"
        /\ pc[i] = "senderror" =>
              /\ outcome[i] = "rejected"
              /\ (\A j \in Calls \ {i} : ~Allocated(j)) =>
                    nonceTracker[address[i]] <= nonce[i]

\* C19: with the node delivering statuses until the stream of the operation
\* ends, every call that has been given a status is eventually resolved or
\* rejected.
C19_EventuallySettles ==
    \A i \in 1..MaxCalls :
        (pc[i] = "dispatched" /\ status[i] # "none") ~> Settled(i)

PollDone == poll.pc \in {"returned", "timeout"}

\* the first poll tick at or after t, for a call started at time 0 whose
\* invocations take no time and whose sleeps take exactly PollInterval
CeilTick(t) == ((t + PollInterval - 1) \div PollInterval) * PollInterval

\* C13 as stated: checkUntil with a predicate that turns true at d, polled
\* every 100 units with invocations that take no time, returns whenever
\* d < T and throws timeout whenever d > T.
C13_TimeoutIffDelayPastT ==
    (poll.kind = "checkUntil" /\ poll.delay # Undefined /\ poll.ideal /\ PollDone)
    => /\ poll.delay < poll.timeout => poll.pc = "returned"
       /\ poll.delay > poll.timeout => poll.pc = "timeout"

\* C13 amended: under the same conditions the call returns whenever d < T,
\* and more generally exactly when d is at most the first poll tick at or
\* after T; it throws timeout exactly when d is past that tick.
C13_TimeoutIffDelayPastTick ==
    (poll.kind = "checkUntil" /\ poll.delay # Undefined /\ poll.ideal /\ PollDone)
    => /\ poll.delay < poll.timeout => poll.pc = "returned"
       /\ poll.delay > CeilTick(poll.timeout) => poll.pc = "timeout"
       /\ poll.delay <= CeilTick(poll.timeout) => poll.pc = "returned"

\* C13 witness: the predicate turned true after T, at or before the next
\* poll tick, and the call returned
C13_Witness ==
    /\ poll.kind = "checkUntil" /\ poll.delay # Undefined /\ poll.ideal
    /\ poll.pc = "returned"
    /\ poll.delay > poll.timeout
    /\ poll.sleeps >= 1

\* C14: checkUntilEq returns at the first poll whose value equals expected:
\* while it has not returned the last observed value differs from expected
\* (so it never throws timeout at a matching poll), and after it has
\* returned nothing of the call changes.
C14_ReturnsAtFirstMatch ==
    /\ [](poll.kind = "checkUntilEq" =>
            /\ (poll.evals >= 1 /\ poll.pc # "returned") =>
                  poll.actual # poll.expected
            /\ poll.pc = "returned" => poll.actual = poll.expected)
    /\ [][poll.pc = "returned" => poll' = poll]_vars

\* C14 witness: a match at a poll after the timeout has elapsed
C14_Witness ==
    /\ poll.kind = "checkUntilEq" /\ poll.pc = "returned"
    /\ poll.actual = poll.expected
    /\ poll.evals >= 2
    /\ poll.now - poll.t0 > poll.timeout

\* C15: a poller call returns only after an invocation, the last one, that
\* returned true (checkUntil) or the expected value (checkUntilEq), and
\* after the timeout error nothing of the call changes.
C15_SuccessOnlyIfObserved ==
    /\ [](poll.pc = "returned" =>
            /\ poll.evals >= 1
            /\ poll.kind = "checkUntil" => poll.actual = 1
            /\ poll.kind = "checkUntilEq" => poll.actual = poll.expected)
    /\ [][poll.pc = "timeout" => poll' = poll]_vars

\* C15 witness: checkUntil returned at a later poll, after polls that failed
C15_Witness ==
    /\ poll.kind = "checkUntil" /\ poll.pc = "returned"
    /\ poll.evals >= 2 /\ poll.actual = 1

\* C18: a poll of checkUntilEq writes a log line exactly when verbose is
\* set, the value does not match and it differs from the value of the poll
\* before (or it is the first poll); nothing else logs, and without verbose
\* there is no log line.
C18_LogsOnChange ==
    /\ [](~poll.verbose => poll.logs = 0)
    /\ [][/\ poll'.logs \in {poll.logs, poll.logs + 1}
          /\ poll'.logs = poll.logs + 1 <=>
                /\ poll'.kind = "checkUntilEq" /\ poll'.verbose
                /\ poll'.evals = poll.evals + 1
                /\ poll'.actual # poll'.expected
                /\ (poll.evals = 0 \/ poll'.actual # poll.actual)]_vars

\* C18 witness: three polls saw the same value, not the expected one, and
\* there is one log line
C18_Witness ==
    /\ poll.kind = "checkUntilEq" /\ poll.verbose
    /\ poll.evals >= 3 /\ poll.logs = 1
    /\ poll.actual # poll.expected

\* C20: with every invocation returning and every timer firing a poller
\* call ends; it throws timeout only after an invocation; with timeout 0 it
\* ends after exactly one invocation and no sleep, returning if that
\* invocation held and throwing timeout otherwise.
C20_PollerTerminates ==
    /\ (poll.pc = "invoke") ~> PollDone
    /\ [](poll.pc = "timeout" => poll.evals >= 1)
    /\ []((PollDone /\ poll.timeout = 0) =>
            /\ poll.evals = 1 /\ poll.sleeps = 0
            /\ poll.pc = "returned" <=>
                  IF poll.kind = "checkUntil" THEN poll.actual = 1
                  ELSE poll.actual = poll.expected)

\* C20 witness: timeout 0, one invocation that did not hold, timeout thrown
\* without a sleep
C20_Witness ==
    /\ poll.pc = "timeout" /\ poll.timeout = 0
    /\ poll.evals = 1 /\ poll.sleeps = 0

====
